---- MODULE Spec2Model ----
(***************************************************************************)
(* The Simulation component of ProjectLoomApp (src/unnamed/part_001,       *)
(* lines 940-1329): the React state of one mounted Simulation, the         *)
(* simulationRunningRef polled by the auto-loop, every auto-loop started   *)
(* by handleAutoLoop (each one an async closure with its own currentRound  *)
(* and loop index), and every simulateAIResponse whose adapter call has    *)
(* not completed yet.                                                      *)
(*                                                                         *)
(* One action is one run-to-completion piece of JavaScript: an event       *)
(* handler up to its first await, or the continuation after an await or a  *)
(* timer.  The state setters of a piece are committed by the render that   *)
(* follows it.  The effect of lines 949-951 is a passive effect: React     *)
(* runs it after the commit, at the latest before the next render of the   *)
(* component, so a handler or continuation can run between a commit and    *)
(* the effect and then reads the ref as the previous effect left it.       *)
(***************************************************************************)
EXTENDS Integers, Sequences, FiniteSets, TLC

\* ------------------------------------------------------------------ bounds
MaxLoops == 2      \* auto-loop closures that can be alive at the same time
MaxManual == 1     \* manual turns in flight per persona
MaxMsgs == 11      \* longest transcript explored
MaxUser == 1       \* user messages in one transcript
MaxOps == 6        \* user operations in one behaviour
DeepOps == 2       \* further user operations in the single-configuration runs
ClockOps == 4      \* user operations in the runs with a moving clock
MaxClock == 2      \* last reading of the clock
MaxExport == 3     \* messages after the seed in an exported transcript
MaxTraits == 2     \* trait assignments of a persona

\* ------------------------------------------------------- program constants
maxRounds == 5

\* --------------------------------------------------------------- test data
\* Personas as CreatePersona stores them: name, llm and role are mandatory.
Personas ==
  << [name |-> "Ada", llm |-> "ChatGPT (OpenAI)", role |-> "chair",
      traits |-> << >>, knowledgeHub |-> ""],
     [name |-> "Bo",  llm |-> "Claude (Anthropic)", role |-> "critic",
      traits |-> << >>, knowledgeHub |-> ""],
     [name |-> "Cy",  llm |-> "Gemini (Google)", role |-> "scribe",
      traits |-> << >>, knowledgeHub |-> ""] >>

PersonaIds == 1..Len(Personas)

\* Environments as CreateEnvironment stores them: a non-empty participant
\* list and an interaction mode are mandatory; wordLimit 0 stands for a
\* limit that is not set.
Environments ==
  << [name |-> "Debate", participants |-> <<1, 2>>,
      interactionMode |-> "auto-loop",
      startingPrompt |-> TRUE,  humanModerator |-> FALSE, wordLimit |-> 100],
     [name |-> "Panel", participants |-> <<3, 1>>,
      interactionMode |-> "manual",
      startingPrompt |-> FALSE, humanModerator |-> TRUE,  wordLimit |-> 150],
     [name |-> "Solo", participants |-> <<3>>,
      interactionMode |-> "auto-loop",
      startingPrompt |-> FALSE, humanModerator |-> FALSE, wordLimit |-> 0] >>

EnvIds == 1..Len(Environments)

\* What a provider endpoint does with one request.
Outcomes == {"ok", "error"}

Providers == {"openai", "claude"}

VARIABLES
  apiKeys,               \* [openai, claude]: is the key a non-empty string
  endpoint,              \* [openai, claude]: what the endpoint answers
  selectedEnvironment,   \* 0 is null, otherwise an index of Environments
  isProcessing,
  localChatHistory,
  isSimulationRunning,
  simulationRunningRef,  \* simulationRunningRef.current
  effectPending,         \* the effect of lines 949-951 is scheduled
  loops,                 \* the handleAutoLoop closures, by slot
  manualCalls,           \* simulateAIResponse calls awaited by handleManualTurn
  opsLeft,               \* user operations left (bounds the exploration)
  flagFell,              \* closures that were stopped and then saw the ref false
  leftBehind,            \* adapter calls in flight that an ended session issued
  network,               \* personas for whose turns fetch has been called
  download,              \* tokens of the file exportChat handed to the browser
  adapter,               \* one provider call looked at closely: the persona,
                         \* the request sent, the answer and the text returned
  formData,              \* CreatePersona: the form
  selectedTraits,        \* CreatePersona: the object of selected traits, as
                         \* its entries in insertion order
  savedPersona,          \* the persona the last handleSubmit stored
  now,                   \* what Date.now() returns
  ids                    \* ids[k] is the id member of localChatHistory[k]

vars == << apiKeys, endpoint, selectedEnvironment, isProcessing, localChatHistory,
           isSimulationRunning, simulationRunningRef, effectPending,
           loops, manualCalls, opsLeft, flagFell, leftBehind,
           network, download, adapter, formData, selectedTraits,
           savedPersona, now, ids >>

LoopIds == 1..MaxLoops

\* A slot that holds no closure.
\* pc, env, currentRound, i and hist (the localChatHistory of the render
\* whose handleAutoLoop was clicked, which its simulateAIResponse closes
\* over) are the closure; turns (messages it has appended), cancel (where it
\* was when stopSimulation or Back first hit it), after (messages it appended
\* since) and fresh (the history of its current turn was the transcript of
\* that moment) are bookkeeping for the properties.
FreeLoop ==
  [pc |-> "free", env |-> 0, currentRound |-> 0, i |-> 0, hist |-> << >>,
   turns |-> 0, cancel |-> "none", after |-> 0, fresh |-> TRUE]

Alive(l) == l.pc \in {"call", "delay", "timer"}

Participants(l) == Environments[l.env].participants

\* ---------------------------------------------------------------- adapter
\* Lines 38 and 68: max_tokens: persona.wordLimit || 200.
maxTokens(persona) ==
  IF "wordLimit" \in DOMAIN persona /\ persona.wordLimit # 0
  THEN persona.wordLimit ELSE 200

\* callOpenAI / callClaude: the value returned or the error thrown, and
\* whether fetch was called (the key check comes first).
callOpenAI(outcome) ==
  IF ~apiKeys.openai
  THEN [threw |-> TRUE, text |-> "key not configured", fetched |-> FALSE]
  ELSE IF outcome # "ok"
  THEN [threw |-> TRUE, text |-> "API Error", fetched |-> TRUE]
  ELSE [threw |-> FALSE, text |-> "reply", fetched |-> TRUE]

callClaude(outcome) ==
  IF ~apiKeys.claude
  THEN [threw |-> TRUE, text |-> "key not configured", fetched |-> FALSE]
  ELSE IF outcome # "ok"
  THEN [threw |-> TRUE, text |-> "API Error", fetched |-> TRUE]
  ELSE [threw |-> FALSE, text |-> "reply", fetched |-> TRUE]

getSimulatedResponse == "simulated"

\* callRealAI catches what the provider functions throw and returns the
\* annotated fallback text as an ordinary value.
callRealAI(p, outcome) ==
  LET r == IF Personas[p].llm = "ChatGPT (OpenAI)" THEN callOpenAI(outcome)
           ELSE IF Personas[p].llm = "Claude (Anthropic)" THEN callClaude(outcome)
           ELSE [threw |-> FALSE, text |-> getSimulatedResponse,
                 fetched |-> FALSE]
  IN IF r.threw
     THEN [threw |-> FALSE, text |-> "error+simulated", fetched |-> r.fetched]
     ELSE r

\* UsesProvider that looks at the model selector only.
UsesProviderAnyKey(p) ==
  \/ Personas[p].llm = "ChatGPT (OpenAI)"
  \/ Personas[p].llm = "Claude (Anthropic)"

\* Lines 984-990: does the turn of persona p go to callRealAI.
UsesProvider(p) ==
  \/ apiKeys.openai /\ Personas[p].llm = "ChatGPT (OpenAI)"
  \/ apiKeys.claude /\ Personas[p].llm = "Claude (Anthropic)"

AIMessage(p, text, live) ==
  [type |-> "ai", persona |-> Personas[p].name, content |-> text,
   llm |-> Personas[p].llm, isRealAI |-> live]

\* simulateAIResponse without the handling of a failed turn: the failure
\* is passed on to the caller and nothing is appended.
simulateAIResponseUnhandled(p, outcome) ==
  LET r == IF UsesProvider(p) THEN callRealAI(p, outcome)
           ELSE [threw |-> FALSE, text |-> getSimulatedResponse,
                 fetched |-> FALSE]
  IN IF r.text = "reply" \/ r.text = "simulated"
     THEN [raised |-> FALSE, fetched |-> r.fetched,
           msgs |-> << AIMessage(p, r.text, UsesProvider(p)) >>]
     ELSE [raised |-> TRUE, fetched |-> r.fetched, msgs |-> << >>]

\* simulateAIResponse that rejects after it has appended the fallback of a
\* failed provider call.
simulateAIResponseRethrows(p, outcome) ==
  LET r == IF UsesProvider(p) THEN callRealAI(p, outcome)
           ELSE [threw |-> FALSE, text |-> getSimulatedResponse,
                 fetched |-> FALSE]
  IN [raised |-> (r.text = "error+simulated"), fetched |-> r.fetched,
      msgs |-> << AIMessage(p, r.text, UsesProvider(p)) >>]

\* simulateAIResponse from its await to its end: the messages it appends
\* and whether it rejects towards its caller.
simulateAIResponse(p, outcome) ==
  LET r == IF UsesProvider(p) THEN callRealAI(p, outcome)
           ELSE [threw |-> FALSE, text |-> getSimulatedResponse,
                 fetched |-> FALSE]
  IN IF ~r.threw
     THEN [raised |-> FALSE, fetched |-> r.fetched,
           msgs |-> << AIMessage(p, r.text, UsesProvider(p)) >>]
     ELSE [raised |-> FALSE, fetched |-> r.fetched,
           msgs |-> << AIMessage(p, "connection error+simulated", FALSE) >>]

\* The outcome the turn of persona p meets at its endpoint.
OutcomesOf(p) ==
  IF Personas[p].llm = "ChatGPT (OpenAI)" THEN {endpoint.openai}
  ELSE IF Personas[p].llm = "Claude (Anthropic)" THEN {endpoint.claude}
  ELSE {"ok"}

SystemMessage ==
  [type |-> "system", persona |-> "", content |-> "starting prompt",
   llm |-> "", isRealAI |-> FALSE]

UserMessage ==
  [type |-> "user", persona |-> "", content |-> "user text",
   llm |-> "", isRealAI |-> FALSE]

\* The clock and the ids of the messages of a transcript that were appended
\* at different clock readings.
ClockStart ==
  /\ now = Len(localChatHistory)
  /\ ids = [k \in DOMAIN localChatHistory |-> k]

\* CreatePersona before anything is typed.
EmptyForm == [name |-> "", llm |-> "", role |-> "", knowledgeHub |-> ""]

NoPersona == [name |-> ""]

\* The form is empty and nothing has been stored.
NotAuthoring ==
  /\ formData = EmptyForm
  /\ selectedTraits = << >>
  /\ savedPersona = NoPersona

\* ------------------------------------------------- one provider call
\* Trait names as CreatePersona offers them, letter by letter, with the
\* lower-case spelling the prompt is expected to show.
TraitWords ==
  { [name |-> << "B", "l", "u", "n", "t" >>,
     lower |-> << "b", "l", "u", "n", "t" >>,
     category |-> << "S", "t", "y", "l", "e" >>],
    [name |-> << "C", "a", "l", "m" >>,
     lower |-> << "c", "a", "l", "m" >>,
     category |-> << "T", "o", "n", "e" >>],
    [name |-> << "B", "i", "g", "-", "p", " ", "T" >>,
     lower |-> << "b", "i", "g", "-", "p", " ", "t" >>,
     category |-> << "S", "t", "y", "l", "e" >>] }

\* Intensities: the three the form offers and one it does not.
Intensities == {"Weak", "Neutral", "Strong", "Fierce"}

\* A trait assignment; the intensity can be missing.
TraitAssignments ==
  {[name |-> w.name, intensity |-> x] : w \in TraitWords, x \in Intensities}
  \cup {[name |-> w.name] : w \in TraitWords}

\* The personas handed to the adapter: up to MaxTraits assignments of
\* different traits.
AdapterPersonas ==
  {[name |-> "Ada", role |-> "chair", llm |-> l, traits |-> t,
    knowledgeHub |-> h] :
     l \in {"ChatGPT (OpenAI)", "Claude (Anthropic)"},
     h \in {"", "lore"},
     t \in {q \in UNION {[1..n -> TraitAssignments] : n \in 0..MaxTraits} :
              \A i, j \in DOMAIN q : i # j => q[i].name # q[j].name}}

\* obj[key] in JavaScript: a member that is missing reads as undefined,
\* which is written "" here (undefined and '' are both falsy).
Read(obj, key) == IF key \in DOMAIN obj THEN obj[key] ELSE ""

UpperCase ==
  << "A", "B", "C", "D", "E", "F", "G", "H", "I", "J", "K", "L", "M",
     "N", "O", "P", "Q", "R", "S", "T", "U", "V", "W", "X", "Y", "Z" >>

LowerCaseLetters ==
  << "a", "b", "c", "d", "e", "f", "g", "h", "i", "j", "k", "l", "m",
     "n", "o", "p", "q", "r", "s", "t", "u", "v", "w", "x", "y", "z" >>

\* String.prototype.toLowerCase on a word given letter by letter.
toLowerCase(word) ==
  [k \in DOMAIN word |->
     IF \E n \in DOMAIN UpperCase : UpperCase[n] = word[k]
     THEN LowerCaseLetters[CHOOSE n \in DOMAIN UpperCase : UpperCase[n] = word[k]]
     ELSE word[k]]

\* Lines 92-97: intensityDesc[trait.intensity] || 'moderately'.
intensityDesc(trait) ==
  IF "intensity" \notin DOMAIN trait THEN "moderately"
  ELSE IF trait.intensity = "Weak" THEN "slightly"
  ELSE IF trait.intensity = "Neutral" THEN "moderately"
  ELSE IF trait.intensity = "Strong" THEN "very"
  ELSE "moderately"

\* buildSystemPrompt that writes the trait name as stored.
buildSystemPromptAsStored(persona) ==
  << << "You are ", persona.name, ", ", persona.role >>, << >> >>
  \o (IF persona.traits # << >>
      THEN << << "Your personality traits:" >> >>
           \o [k \in DOMAIN persona.traits |->
                 << "- ", intensityDesc(persona.traits[k]), " " >>
                 \o persona.traits[k].name]
           \o << << >> >>
      ELSE << >>)
  \o (IF Read(persona, "knowledgeHub") # ""
      THEN << << "Background and Knowledge:" >>, << persona.knowledgeHub >>,
              << >> >>
      ELSE << >>)
  \o << << "IMPORTANT: Stay in character as ", persona.name, ". Respond" >> >>

\* buildSystemPrompt: the prompt as a sequence of lines, each line a
\* sequence of pieces of text (a trait name gives one piece per letter).
buildSystemPrompt(persona) ==
  << << "You are ", persona.name, ", ", persona.role >>, << >> >>
  \o (IF persona.traits # << >>
      THEN << << "Your personality traits:" >> >>
           \o [k \in DOMAIN persona.traits |->
                 << "- ", intensityDesc(persona.traits[k]), " " >>
                 \o toLowerCase(persona.traits[k].name)]
           \o << << >> >>
      ELSE << >>)
  \o (IF Read(persona, "knowledgeHub") # ""
      THEN << << "Background and Knowledge:" >>, << persona.knowledgeHub >>,
              << >> >>
      ELSE << >>)
  \o << << "IMPORTANT: Stay in character as ", persona.name, ". Respond" >> >>

\* What the endpoint sends back: the status is a success or not, the body
\* is JSON or not, and a JSON error body has an error member with a message
\* or not (message "" stands for no message).
Answers ==
  { [ok |-> TRUE,  json |-> TRUE,  hasError |-> FALSE, message |-> ""],
    [ok |-> FALSE, json |-> TRUE,  hasError |-> TRUE,  message |-> "quota exceeded"],
    [ok |-> FALSE, json |-> TRUE,  hasError |-> TRUE,  message |-> ""],
    [ok |-> FALSE, json |-> TRUE,  hasError |-> FALSE, message |-> ""],
    [ok |-> FALSE, json |-> FALSE, hasError |-> FALSE, message |-> ""] }

\* Lines 43-49 and 77-83: what callOpenAI / callClaude do with the answer.
\* response.json() rejects with a SyntaxError when the body is not JSON.
afterFetch(label, answer) ==
  IF ~answer.json
  THEN [threw |-> TRUE, text |-> << "Unexpected token" >>]
  ELSE IF ~answer.ok
  THEN [threw |-> TRUE,
        text |-> << label,
                    IF answer.hasError /\ answer.message # ""
                    THEN answer.message ELSE "Unknown error" >>]
  ELSE [threw |-> FALSE, text |-> << "reply" >>]

\* Lines 111-128 for a persona of a live provider whose key is set: the
\* text callRealAI returns, which simulateAIResponse appends as content.
returnedText(persona, answer) ==
  LET r == IF persona.llm = "ChatGPT (OpenAI)"
           THEN afterFetch("OpenAI API Error: ", answer)
           ELSE afterFetch("Claude API Error: ", answer)
  IN IF r.threw
     THEN << "[", persona.name, "]: " >> \o r.text
          \o << ". Falling back to simulated response: ", getSimulatedResponse >>
     ELSE r.text

NoAnswer == [ok |-> TRUE, json |-> TRUE, hasError |-> FALSE, message |-> "none"]

IdleAdapter(persona) ==
  [persona |-> persona, stage |-> "idle",
   request |-> [system |-> << >>, max_tokens |-> 0],
   answer |-> NoAnswer, response |-> << >>]

\* callOpenAI / callClaude up to the fetch: the request body.
Fetch ==
  /\ adapter.stage = "idle"
  /\ adapter' = [adapter EXCEPT
                   !.stage = "sent",
                   !.request = [system |-> buildSystemPrompt(adapter.persona),
                                max_tokens |-> maxTokens(adapter.persona)]]
  /\ UNCHANGED << apiKeys, endpoint, now, ids, selectedEnvironment, isProcessing,
                  localChatHistory, isSimulationRunning, simulationRunningRef,
                  effectPending, loops, manualCalls, opsLeft, flagFell,
                  leftBehind, network, download, formData, selectedTraits,
                  savedPersona >>

\* The endpoint answers and callRealAI returns.
Answer(a) ==
  /\ adapter.stage = "sent"
  /\ adapter' = [adapter EXCEPT
                   !.stage = "done",
                   !.answer = a,
                   !.response = returnedText(adapter.persona, a)]
  /\ UNCHANGED << apiKeys, endpoint, now, ids, selectedEnvironment, isProcessing,
                  localChatHistory, isSimulationRunning, simulationRunningRef,
                  effectPending, loops, manualCalls, opsLeft, flagFell,
                  leftBehind, network, download, formData, selectedTraits,
                  savedPersona >>

InitAdapter ==
  /\ apiKeys = [openai |-> TRUE, claude |-> TRUE]
  /\ endpoint = [openai |-> "ok", claude |-> "ok"]
  /\ selectedEnvironment = 0
  /\ isProcessing = FALSE
  /\ localChatHistory = << >>
  /\ isSimulationRunning = FALSE
  /\ simulationRunningRef = FALSE
  /\ effectPending = FALSE
  /\ loops = [s \in LoopIds |-> FreeLoop]
  /\ manualCalls = [p \in PersonaIds |-> 0]
  /\ opsLeft = 0
  /\ flagFell = {}
  /\ leftBehind = [loops |-> {}, manual |-> [p \in PersonaIds |-> 0]]
  /\ network = {}
  /\ download = << >>
  /\ \E persona \in AdapterPersonas : adapter = IdleAdapter(persona)
  /\ NotAuthoring
  /\ ClockStart

NextAdapter ==
  \/ Fetch
  \/ \E a \in Answers : Answer(a)

SpecAdapter == InitAdapter /\ [][NextAdapter]_vars

\* ---------------------------------------------------------- CreatePersona
\* Line 379: the key `${category}-${trait}`.
traitKey(category, trait) == category \o << "-" >> \o trait

\* The position of key in the entries of obj, 0 when obj has no such key.
IndexOf(obj, key) ==
  IF \E k \in DOMAIN obj : obj[k].key = key
  THEN CHOOSE k \in DOMAIN obj : obj[k].key = key
  ELSE 0

\* obj[key] = value: an existing key keeps its place, a new one goes last.
SetKey(obj, key, value) ==
  IF IndexOf(obj, key) # 0
  THEN [obj EXCEPT ![IndexOf(obj, key)] = [key |-> key, value |-> value]]
  ELSE Append(obj, [key |-> key, value |-> value])

\* delete obj[key].
DeleteKey(obj, key) == SelectSeq(obj, LAMBDA entry : entry.key # key)

\* The three required fields are typed, one model selector chosen.
fillRequired(llm) ==
  /\ formData' = [formData EXCEPT !.name = "Ada", !.llm = llm, !.role = "chair"]
  /\ UNCHANGED << apiKeys, endpoint, now, ids, selectedEnvironment, isProcessing,
                  localChatHistory, isSimulationRunning, simulationRunningRef,
                  effectPending, loops, manualCalls, opsLeft, flagFell,
                  leftBehind, network, download, adapter, selectedTraits,
                  savedPersona >>

\* Line 578: the Knowledge Hub text area changes.
typeKnowledge(text) ==
  /\ formData' = [formData EXCEPT !.knowledgeHub = text]
  /\ UNCHANGED << apiKeys, endpoint, now, ids, selectedEnvironment, isProcessing,
                  localChatHistory, isSimulationRunning, simulationRunningRef,
                  effectPending, loops, manualCalls, opsLeft, flagFell,
                  leftBehind, network, download, adapter, selectedTraits,
                  savedPersona >>

\* handleTraitToggle that adds the trait without looking for its key.
handleTraitToggleAdds(w) ==
  /\ selectedTraits' =
       Append(selectedTraits,
              [key |-> traitKey(w.category, w.name),
               value |-> [name |-> w.name, category |-> w.category,
                          intensity |-> "Neutral"]])
  /\ Len(selectedTraits) < Cardinality(TraitWords) + 1
  /\ UNCHANGED << apiKeys, endpoint, now, ids, selectedEnvironment, isProcessing,
                  localChatHistory, isSimulationRunning, simulationRunningRef,
                  effectPending, loops, manualCalls, opsLeft, flagFell,
                  leftBehind, network, download, adapter, formData,
                  savedPersona >>

\* Lines 378-389: the check box of trait w.
handleTraitToggle(w) ==
  /\ LET key == traitKey(w.category, w.name)
     IN selectedTraits' =
          IF IndexOf(selectedTraits, key) # 0
          THEN DeleteKey(selectedTraits, key)
          ELSE SetKey(selectedTraits, key,
                      [name |-> w.name, category |-> w.category,
                       intensity |-> "Neutral"])
  /\ UNCHANGED << apiKeys, endpoint, now, ids, selectedEnvironment, isProcessing,
                  localChatHistory, isSimulationRunning, simulationRunningRef,
                  effectPending, loops, manualCalls, opsLeft, flagFell,
                  leftBehind, network, download, adapter, formData,
                  savedPersona >>

\* Lines 391-396: the intensity select of a selected trait (it is rendered
\* only for a key that selectedTraits holds).
handleIntensityChange(traitKeyOf, intensity) ==
  /\ IndexOf(selectedTraits, traitKeyOf) # 0
  /\ selectedTraits' =
       SetKey(selectedTraits, traitKeyOf,
              [selectedTraits[IndexOf(selectedTraits, traitKeyOf)].value
                 EXCEPT !.intensity = intensity])
  /\ UNCHANGED << apiKeys, endpoint, now, ids, selectedEnvironment, isProcessing,
                  localChatHistory, isSimulationRunning, simulationRunningRef,
                  effectPending, loops, manualCalls, opsLeft, flagFell,
                  leftBehind, network, download, adapter, formData,
                  savedPersona >>

\* Lines 426-433: the object handleSubmit stores (files left out).
\* Object.values(selectedTraits) are the values in insertion order.
newPersona ==
  [name |-> formData.name,
   llm |-> formData.llm,
   role |-> formData.role,
   knowledge_hub |-> Read(formData, "knowledge_hub"),
   traits |-> [k \in DOMAIN selectedTraits |-> selectedTraits[k].value]]

\* Lines 420-446: Create Persona. Without a required field it only alerts.
handleSubmit ==
  /\ IF formData.name = "" \/ formData.llm = "" \/ formData.role = ""
     THEN UNCHANGED << formData, selectedTraits, savedPersona >>
     ELSE /\ savedPersona' = newPersona
          /\ formData' = EmptyForm
          /\ selectedTraits' = << >>
  /\ UNCHANGED << apiKeys, endpoint, now, ids, selectedEnvironment, isProcessing,
                  localChatHistory, isSimulationRunning, simulationRunningRef,
                  effectPending, loops, manualCalls, opsLeft, flagFell,
                  leftBehind, network, download, adapter >>

InitAuthoring ==
  /\ apiKeys = [openai |-> TRUE, claude |-> TRUE]
  /\ endpoint = [openai |-> "ok", claude |-> "ok"]
  /\ selectedEnvironment = 0
  /\ isProcessing = FALSE
  /\ localChatHistory = << >>
  /\ isSimulationRunning = FALSE
  /\ simulationRunningRef = FALSE
  /\ effectPending = FALSE
  /\ loops = [s \in LoopIds |-> FreeLoop]
  /\ manualCalls = [p \in PersonaIds |-> 0]
  /\ opsLeft = 0
  /\ flagFell = {}
  /\ leftBehind = [loops |-> {}, manual |-> [p \in PersonaIds |-> 0]]
  /\ network = {}
  /\ download = << >>
  /\ adapter = IdleAdapter(Personas[1])
  /\ NotAuthoring
  /\ ClockStart

NextAuthoring ==
  \/ \E llm \in {"ChatGPT (OpenAI)"} : fillRequired(llm)
  \/ \E text \in {"", "lore"} : typeKnowledge(text)
  \/ \E w \in TraitWords : handleTraitToggle(w)
  \/ \E w \in TraitWords, x \in {"Weak", "Neutral", "Strong"} :
       handleIntensityChange(traitKey(w.category, w.name), x)
  \/ handleSubmit

SpecAuthoring == InitAuthoring /\ [][NextAuthoring]_vars

\* --------------------------------------------------------- render / effect
\* The render after a piece of code: a pending effect runs before it, and
\* the commit schedules the effect again when isSimulationRunning changed.
Render ==
  LET rendered == << selectedEnvironment', isProcessing', localChatHistory',
                     isSimulationRunning' >>
                  # << selectedEnvironment, isProcessing, localChatHistory,
                       isSimulationRunning >>
  IN /\ simulationRunningRef' =
          IF rendered /\ effectPending THEN isSimulationRunning
          ELSE simulationRunningRef
     /\ effectPending' =
          IF rendered THEN isSimulationRunning' # isSimulationRunning
          ELSE effectPending

\* The step is the Back button: the session ends.
Leaving == selectedEnvironment # 0 /\ selectedEnvironment' = 0

\* The closures whose adapter call in flight after the step was issued by a
\* session that has ended.
LeftLoops ==
  {s \in LoopIds :
     /\ loops[s].pc = "call"
     /\ loops'[s].pc = "call"
     /\ loops'[s].i = loops[s].i
     /\ loops'[s].currentRound = loops[s].currentRound
     /\ loops'[s].turns = loops[s].turns
     /\ Leaving \/ s \in leftBehind.loops}

\* The manual calls of persona p in flight after the step that were issued by
\* a session that has ended: all of them at Back; when one call of p returns
\* it is one of the old ones or one of the new ones.
LeftManual(p) ==
  IF Leaving THEN {manualCalls'[p]}
  ELSE IF manualCalls'[p] < manualCalls[p]
  THEN {n \in {leftBehind.manual[p] - 1, leftBehind.manual[p]} :
          n >= 0 /\ n <= manualCalls'[p]}
  ELSE {leftBehind.manual[p]}

\* The step calls simulateAIResponse for persona p.
Issued(p) ==
  \/ manualCalls'[p] > manualCalls[p]
  \/ \E s \in LoopIds :
       /\ loops'[s].pc = "call"
       /\ Participants(loops'[s])[loops'[s].i + 1] = p
       /\ \/ loops[s].pc # "call"
          \/ loops'[s].i # loops[s].i
          \/ loops'[s].currentRound # loops[s].currentRound
          \/ loops'[s].turns # loops[s].turns

\* id: Date.now() of lines 967, 997, 1015 and 1078: the message appended in
\* the step, or the seed of a new transcript, gets the reading of the clock.
MessageIds ==
  IF localChatHistory' = localChatHistory THEN ids
  ELSE IF /\ Len(localChatHistory') = Len(localChatHistory) + 1
          /\ SubSeq(localChatHistory', 1, Len(localChatHistory)) = localChatHistory
  THEN Append(ids, now)
  ELSE [k \in DOMAIN localChatHistory' |-> now]

\* Bookkeeping, taken last in every step: the closures that are alive, were
\* hit by stopSimulation and have since had the ref false, the calls left
\* behind by ended sessions, the personas whose turns reached fetch, and
\* the ids of the messages.
Track ==
  /\ flagFell' = {s \in LoopIds :
                    /\ Alive(loops'[s])
                    /\ \/ s \in flagFell /\ Alive(loops[s])
                       \/ /\ loops'[s].cancel \in {"call", "delay", "timer"}
                          /\ ~simulationRunningRef'}
  /\ \E m \in [PersonaIds -> 0..MaxManual] :
       /\ \A p \in PersonaIds : m[p] \in LeftManual(p)
       /\ leftBehind' = [loops |-> LeftLoops, manual |-> m]
  /\ network' = network \cup
       {p \in PersonaIds :
          Issued(p) /\ \E o \in OutcomesOf(p) : simulateAIResponse(p, o).fetched}
  /\ ids' = MessageIds

\* useEffect(() => { simulationRunningRef.current = isSimulationRunning })
FlushEffect ==
  /\ effectPending
  /\ simulationRunningRef' = isSimulationRunning
  /\ effectPending' = FALSE
  /\ UNCHANGED << apiKeys, endpoint, now, download, adapter, formData,
                  selectedTraits, savedPersona, selectedEnvironment, isProcessing,
                  localChatHistory, isSimulationRunning, loops, manualCalls,
                  opsLeft >>
  /\ Track

\* ------------------------------------------------------------ runNextTurn
\* Each operator gives the closure after the piece of code and what the
\* piece did: issue = simulateAIResponse was called, stop =
\* setIsSimulationRunning(false) was called.

\* Line 979: the history a turn passes to the adapter, from the transcript
\* its simulateAIResponse closes over.
conversationContext(h) == SelectSeq(h, LAMBDA m : m.type # "system")

Ended(l) ==
  [l EXCEPT !.pc = "done", !.currentRound = 0, !.i = 0, !.hist = << >>,
            !.fresh = TRUE]

\* Lines 1059-1064, after the for loop or a break.
AfterFor(l, ref) ==
  IF ref /\ l.currentRound + 1 < maxRounds
  THEN [loop |-> [l EXCEPT !.pc = "timer", !.currentRound = @ + 1, !.i = 0],
        issue |-> FALSE, stop |-> FALSE]
  ELSE [loop |-> Ended(l), issue |-> FALSE, stop |-> TRUE]

\* Lines 1044-1049: the loop condition and the poll before the turn of
\* participant l.i (counted from 0).
ForStep(l, ref) ==
  IF l.i < Len(Participants(l))
  THEN IF ref
       THEN [loop |-> [l EXCEPT !.pc = "call",
                                !.fresh = (conversationContext(l.hist)
                                  = conversationContext(localChatHistory))],
             issue |-> TRUE, stop |-> FALSE]
       ELSE AfterFor(l, ref)
  ELSE AfterFor(l, ref)

\* Lines 1038-1044: entry of runNextTurn.
runNextTurn(l, ref) ==
  IF ~ref
  THEN [loop |-> Ended(l), issue |-> FALSE, stop |-> FALSE]
  ELSE IF l.currentRound >= maxRounds
  THEN [loop |-> Ended(l), issue |-> FALSE, stop |-> TRUE]
  ELSE ForStep([l EXCEPT !.i = 0], ref)

\* Lines 1056-1057 after the pacing delay: poll, then the next iteration.
AfterDelay(l, ref) ==
  IF ~ref THEN AfterFor(l, ref)
  ELSE ForStep([l EXCEPT !.i = @ + 1], ref)

\* Lines 1051-1054: simulateAIResponse rejected, continue with the next
\* iteration (no pacing delay, no poll at line 1056).
AfterCatch(l, ref) == ForStep([l EXCEPT !.i = @ + 1], ref)

\* The record of a closure that has returned is dropped at the next user
\* operation.
Reap(ls) == [s \in LoopIds |-> IF ls[s].pc = "done" THEN FreeLoop ELSE ls[s]]

\* A user operation reached the closures that are alive: remember where
\* each one was (how is "stop" or "back").
Cancelled(ls, how) ==
  [s \in LoopIds |->
     IF ls[s].pc = "done" THEN FreeLoop
     ELSE IF Alive(ls[s]) /\ ls[s].cancel = "none"
     THEN [ls[s] EXCEPT !.cancel = IF how = "stop" THEN ls[s].pc ELSE how]
     ELSE ls[s]]

\* ---------------------------------------------------------------- actions
\* The configurations a session can run in: which keys are set and what the
\* endpoints answer.
Configs ==
  {c \in [keys : [openai : BOOLEAN, claude : BOOLEAN],
          endpoint : [openai : Outcomes, claude : Outcomes]] :
     \A k \in Providers : ~c.keys[k] => c.endpoint[k] = "ok"}

InitWith(cs, n) ==
  /\ \E c \in cs : apiKeys = c.keys /\ endpoint = c.endpoint
  /\ selectedEnvironment = 0
  /\ isProcessing = FALSE
  /\ localChatHistory = << >>
  /\ isSimulationRunning = FALSE
  /\ simulationRunningRef = FALSE
  /\ effectPending = FALSE
  /\ loops = [s \in LoopIds |-> FreeLoop]
  /\ manualCalls = [p \in PersonaIds |-> 0]
  /\ opsLeft = n
  /\ flagFell = {}
  /\ leftBehind = [loops |-> {}, manual |-> [p \in PersonaIds |-> 0]]
  /\ network = {}
  /\ download = << >>
  /\ adapter = IdleAdapter(Personas[1])
  /\ NotAuthoring
  /\ ClockStart

Init == InitWith(Configs, MaxOps)

\* startSimulation that seeds the transcript without emptying it first.
startSimulationKeeps(e) ==
  /\ opsLeft > 0
  /\ selectedEnvironment = 0
  /\ selectedEnvironment' = e
  /\ localChatHistory' = IF Environments[e].startingPrompt
                         THEN localChatHistory \o << SystemMessage >>
                         ELSE localChatHistory
  /\ loops' = Reap(loops)
  /\ opsLeft' = opsLeft - 1
  /\ UNCHANGED << apiKeys, endpoint, now, download, adapter, formData,
                  selectedTraits, savedPersona, isProcessing, isSimulationRunning,
                  manualCalls >>
  /\ Render
  /\ Track

\* The Start Simulation button of the environment list.
startSimulation(e) ==
  /\ opsLeft > 0
  /\ selectedEnvironment = 0
  /\ selectedEnvironment' = e
  /\ localChatHistory' = IF Environments[e].startingPrompt
                         THEN << SystemMessage >> ELSE << >>
  /\ loops' = Reap(loops)
  /\ opsLeft' = opsLeft - 1
  /\ UNCHANGED << apiKeys, endpoint, now, download, adapter, formData,
                  selectedTraits, savedPersona, isProcessing, isSimulationRunning,
                  manualCalls >>
  /\ Render
  /\ Track

\* The Back button without the reset of isSimulationRunning.
BackKeepsRunning ==
  /\ opsLeft > 0
  /\ selectedEnvironment # 0
  /\ selectedEnvironment' = 0
  /\ localChatHistory' = << >>
  /\ isSimulationRunning' = isSimulationRunning
  /\ loops' = Cancelled(loops, "back")
  /\ opsLeft' = opsLeft - 1
  /\ UNCHANGED << apiKeys, endpoint, now, download, adapter, formData,
                  selectedTraits, savedPersona, isProcessing, manualCalls >>
  /\ Render
  /\ Track

\* The Back button.
Back ==
  /\ opsLeft > 0
  /\ selectedEnvironment # 0
  /\ selectedEnvironment' = 0
  /\ localChatHistory' = << >>
  /\ isSimulationRunning' = FALSE
  /\ loops' = Cancelled(loops, "back")
  /\ opsLeft' = opsLeft - 1
  /\ UNCHANGED << apiKeys, endpoint, now, download, adapter, formData,
                  selectedTraits, savedPersona, isProcessing, manualCalls >>
  /\ Render
  /\ Track

\* The Auto-Run button (shown while isSimulationRunning is false).
handleAutoLoop ==
  /\ selectedEnvironment # 0
  /\ Environments[selectedEnvironment].interactionMode = "auto-loop"
  /\ ~isSimulationRunning
  /\ IF isProcessing
     THEN UNCHANGED vars
     ELSE \E s \in LoopIds :
       /\ opsLeft > 0
       /\ opsLeft' = opsLeft - 1
       /\ ~Alive(loops[s])
       /\ \A t \in LoopIds : t < s => Alive(loops[t])
       /\ LET r == runNextTurn([FreeLoop EXCEPT !.env = selectedEnvironment,
                                             !.hist = localChatHistory],
                               simulationRunningRef)
          IN /\ loops' = [Reap(loops) EXCEPT ![s] = r.loop]
             /\ isSimulationRunning' = ~r.stop
             /\ isProcessing' = r.issue
       /\ UNCHANGED << apiKeys, endpoint, now, download, adapter, formData,
                  selectedTraits, savedPersona, selectedEnvironment,
                       localChatHistory, manualCalls >>
       /\ Render
       /\ Track

\* The Stop button (shown while isSimulationRunning is true).
\* stopSimulation that also empties the transcript.
stopSimulationClears ==
  /\ opsLeft > 0
  /\ selectedEnvironment # 0
  /\ Environments[selectedEnvironment].interactionMode = "auto-loop"
  /\ isSimulationRunning
  /\ isSimulationRunning' = FALSE
  /\ isProcessing' = FALSE
  /\ localChatHistory' = << >>
  /\ loops' = Cancelled(loops, "stop")
  /\ opsLeft' = opsLeft - 1
  /\ UNCHANGED << apiKeys, endpoint, now, download, adapter, formData,
                  selectedTraits, savedPersona, selectedEnvironment, manualCalls >>
  /\ Render
  /\ Track

stopSimulation ==
  /\ opsLeft > 0
  /\ selectedEnvironment # 0
  /\ Environments[selectedEnvironment].interactionMode = "auto-loop"
  /\ isSimulationRunning
  /\ isSimulationRunning' = FALSE
  /\ isProcessing' = FALSE
  /\ loops' = Cancelled(loops, "stop")
  /\ opsLeft' = opsLeft - 1
  /\ UNCHANGED << apiKeys, endpoint, now, download, adapter, formData,
                  selectedTraits, savedPersona, selectedEnvironment, localChatHistory,
                  manualCalls >>
  /\ Render
  /\ Track

\* The adapter call of the turn awaited by closure s completes:
\* simulateAIResponse appends and returns, runNextTurn starts the pacing
\* delay (or, had simulateAIResponse rejected, continues at once).
LoopCallDone(s) ==
  /\ loops[s].pc = "call"
  /\ Len(localChatHistory) < MaxMsgs
  /\ LET l == loops[s]
         p == Participants(l)[l.i + 1]
     IN \E outcome \in OutcomesOf(p) :
          LET t == simulateAIResponse(p, outcome)
              n == Len(t.msgs)
              m == [l EXCEPT !.turns = @ + n,
                             !.after = IF l.cancel = "none" THEN 0 ELSE @ + n]
              c == AfterCatch(m, simulationRunningRef)
          IN /\ localChatHistory' = localChatHistory \o t.msgs
             /\ IF ~t.raised
                THEN /\ loops' = [loops EXCEPT ![s] = [m EXCEPT !.pc = "delay"]]
                     /\ isProcessing' = FALSE
                     /\ UNCHANGED isSimulationRunning
                ELSE /\ loops' = [loops EXCEPT ![s] = c.loop]
                     /\ isProcessing' = c.issue
                     /\ isSimulationRunning' =
                          IF c.stop THEN FALSE ELSE isSimulationRunning
  /\ UNCHANGED << apiKeys, endpoint, now, download, adapter, formData,
                  selectedTraits, savedPersona, selectedEnvironment, manualCalls,
                  opsLeft >>
  /\ Render
  /\ Track

\* The pacing delay of closure s elapses.
LoopDelayDone(s) ==
  /\ loops[s].pc = "delay"
  /\ LET r == AfterDelay(loops[s], simulationRunningRef)
     IN /\ loops' = [loops EXCEPT ![s] = r.loop]
        /\ isProcessing' = IF r.issue THEN TRUE ELSE isProcessing
        /\ isSimulationRunning' = IF r.stop THEN FALSE ELSE isSimulationRunning
  /\ UNCHANGED << apiKeys, endpoint, now, download, adapter, formData,
                  selectedTraits, savedPersona, selectedEnvironment, localChatHistory,
                  manualCalls, opsLeft >>
  /\ Render
  /\ Track

\* The timer set by setTimeout(runNextTurn, 1000) of closure s fires.
LoopTimerFired(s) ==
  /\ loops[s].pc = "timer"
  /\ LET r == runNextTurn(loops[s], simulationRunningRef)
     IN /\ loops' = [loops EXCEPT ![s] = r.loop]
        /\ isProcessing' = IF r.issue THEN TRUE ELSE isProcessing
        /\ isSimulationRunning' = IF r.stop THEN FALSE ELSE isSimulationRunning
  /\ UNCHANGED << apiKeys, endpoint, now, download, adapter, formData,
                  selectedTraits, savedPersona, selectedEnvironment, localChatHistory,
                  manualCalls, opsLeft >>
  /\ Render
  /\ Track

\* The Speak button of participant p (manual mode).
handleManualTurn(p) ==
  /\ selectedEnvironment # 0
  /\ Environments[selectedEnvironment].interactionMode = "manual"
  /\ \E k \in DOMAIN Environments[selectedEnvironment].participants :
        Environments[selectedEnvironment].participants[k] = p
  /\ IF isProcessing
     THEN UNCHANGED vars
     ELSE /\ opsLeft > 0
          /\ opsLeft' = opsLeft - 1
          /\ manualCalls[p] < MaxManual
          /\ manualCalls' = [manualCalls EXCEPT ![p] = @ + 1]
          /\ isProcessing' = TRUE
          /\ UNCHANGED << apiKeys, endpoint, now, download, adapter, formData,
                  selectedTraits, savedPersona, selectedEnvironment,
                          localChatHistory, isSimulationRunning, loops >>
          /\ Render
          /\ Track

\* The adapter call of a manual turn of persona p completes.
ManualCallDone(p) ==
  /\ manualCalls[p] > 0
  /\ Len(localChatHistory) < MaxMsgs
  /\ \E outcome \in OutcomesOf(p) :
       localChatHistory' = localChatHistory \o simulateAIResponse(p, outcome).msgs
  /\ isProcessing' = FALSE
  /\ manualCalls' = [manualCalls EXCEPT ![p] = @ - 1]
  /\ UNCHANGED << apiKeys, endpoint, now, download, adapter, formData,
                  selectedTraits, savedPersona, selectedEnvironment, isSimulationRunning,
                  loops, opsLeft >>
  /\ Render
  /\ Track

UserCount(h) == Cardinality({k \in DOMAIN h : h[k].type = "user"})

\* handleUserMessage that also marks a turn as started.
handleUserMessageStartsTurn(blank) ==
  /\ selectedEnvironment # 0
  /\ \/ Environments[selectedEnvironment].interactionMode = "mixed"
     \/ Environments[selectedEnvironment].humanModerator
  /\ IF blank
     THEN UNCHANGED vars
     ELSE /\ opsLeft > 0
          /\ opsLeft' = opsLeft - 1
          /\ Len(localChatHistory) < MaxMsgs
          /\ UserCount(localChatHistory) < MaxUser
          /\ localChatHistory' = Append(localChatHistory, UserMessage)
          /\ isProcessing' = TRUE
          /\ UNCHANGED << apiKeys, endpoint, now, download, adapter, formData,
                  selectedTraits, savedPersona, selectedEnvironment,
                          isSimulationRunning, loops, manualCalls >>
          /\ Render
          /\ Track

\* The send button or Enter in the input (mixed mode or human moderator).
handleUserMessage(blank) ==
  /\ selectedEnvironment # 0
  /\ \/ Environments[selectedEnvironment].interactionMode = "mixed"
     \/ Environments[selectedEnvironment].humanModerator
  /\ IF blank
     THEN UNCHANGED vars
     ELSE /\ opsLeft > 0
          /\ opsLeft' = opsLeft - 1
          /\ Len(localChatHistory) < MaxMsgs
          /\ UserCount(localChatHistory) < MaxUser
          /\ localChatHistory' = Append(localChatHistory, UserMessage)
          /\ UNCHANGED << apiKeys, endpoint, now, download, adapter, formData,
                  selectedTraits, savedPersona, selectedEnvironment, isProcessing,
                          isSimulationRunning, loops, manualCalls >>
          /\ Render
          /\ Track

Next ==
  \/ \E e \in EnvIds : startSimulation(e)
  \/ Back
  \/ handleAutoLoop
  \/ stopSimulation
  \/ \E s \in LoopIds : LoopCallDone(s)
  \/ \E s \in LoopIds : LoopDelayDone(s)
  \/ \E s \in LoopIds : LoopTimerFired(s)
  \/ \E p \in PersonaIds : handleManualTurn(p)
  \/ \E p \in PersonaIds : ManualCallDone(p)
  \/ \E blank \in BOOLEAN : handleUserMessage(blank)
  \/ FlushEffect

Spec == Init /\ [][Next]_vars

\* Both keys set, the OpenAI endpoint answers, the Anthropic one fails.
DeepConfigs ==
  {c \in Configs : /\ c.keys.openai /\ c.keys.claude
                   /\ c.endpoint.openai = "ok" /\ c.endpoint.claude = "error"}

InitDeep == InitWith(DeepConfigs, MaxOps + DeepOps)

SpecDeep == InitDeep /\ [][Next]_vars

\* Time passes: the next Date.now() is later.
Tick ==
  /\ now < MaxClock
  /\ now' = now + 1
  /\ UNCHANGED << apiKeys, endpoint, ids, selectedEnvironment, isProcessing,
                  localChatHistory, isSimulationRunning, simulationRunningRef,
                  effectPending, loops, manualCalls, opsLeft, flagFell,
                  leftBehind, network, download, adapter, formData,
                  selectedTraits, savedPersona >>

InitClock == InitWith(DeepConfigs, ClockOps)

\* The component with a clock that moves between any two steps or stands
\* still.
SpecClock == InitClock /\ [][Next \/ Tick]_vars

\* ------------------------------------------------------------- exportChat
\* A JSON text is a sequence of tokens: punctuation, string literals and
\* the literals true and false.
Punct(c) == [kind |-> "punct", text |-> c]

StringToken(str) == [kind |-> "string", text |-> str]

BooleanToken(b) == [kind |-> "literal", text |-> IF b THEN "true" ELSE "false"]

RECURSIVE Join(_)
\* The token sequences parts, separated by commas.
Join(parts) ==
  IF parts = << >> THEN << >>
  ELSE IF Len(parts) = 1 THEN parts[1]
  ELSE parts[1] \o << Punct(",") >> \o Join(Tail(parts))

Member(key, tokens) == << StringToken(key), Punct(":") >> \o tokens

ObjectText(members) == << Punct("{") >> \o Join(members) \o << Punct("}") >>

ArrayText(elements) == << Punct("[") >> \o Join(elements) \o << Punct("]") >>

\* JSON.stringify of one message of the transcript.
stringifyMessage(m) ==
  ObjectText(<< Member("type", << StringToken(m.type) >>),
                Member("persona", << StringToken(m.persona) >>),
                Member("content", << StringToken(m.content) >>),
                Member("llm", << StringToken(m.llm) >>),
                Member("isRealAI", << BooleanToken(m.isRealAI) >>) >>)

\* chatData with the history of a turn in place of the transcript.
chatDataOfTurn ==
  LET env == Environments[selectedEnvironment]
  IN [environment |-> env.name,
      participants |-> [k \in DOMAIN env.participants |->
                          Personas[env.participants[k]].name],
      messages |-> conversationContext(localChatHistory),
      exportedAt |-> "now"]

\* Lines 1094-1099: the object exportChat builds.
chatData ==
  LET env == Environments[selectedEnvironment]
  IN [environment |-> env.name,
      participants |-> [k \in DOMAIN env.participants |->
                          Personas[env.participants[k]].name],
      messages |-> localChatHistory,
      exportedAt |-> "now"]

\* Line 1101: JSON.stringify(chatData, null, 2), without the white space.
JSONstringify(d) ==
  ObjectText(
    << Member("environment", << StringToken(d.environment) >>),
       Member("participants",
              ArrayText([k \in DOMAIN d.participants |->
                           << StringToken(d.participants[k]) >>])),
       Member("messages",
              ArrayText([k \in DOMAIN d.messages |->
                           stringifyMessage(d.messages[k])])),
       Member("exportedAt", << StringToken(d.exportedAt) >>) >>)

RECURSIVE ParseValue(_, _), ParseMembers(_, _, _), ParseElements(_, _, _)
\* JSON.parse of the value that starts at token i: the value and the
\* position after it.
ParseValue(t, i) ==
  IF t[i].kind = "string" THEN [val |-> t[i].text, next |-> i + 1]
  ELSE IF t[i].kind = "literal" THEN [val |-> (t[i].text = "true"), next |-> i + 1]
  ELSE IF t[i] = Punct("{")
  THEN IF t[i + 1] = Punct("}") THEN [val |-> << >>, next |-> i + 2]
       ELSE ParseMembers(t, i + 1, << >>)
  ELSE IF t[i + 1] = Punct("]") THEN [val |-> << >>, next |-> i + 2]
       ELSE ParseElements(t, i + 1, << >>)

\* The members of an object from the key at token i on; acc is the list of
\* << key, value >> read so far.
ParseMembers(t, i, acc) ==
  LET v == ParseValue(t, i + 2)
      all == Append(acc, << t[i].text, v.val >>)
  IN IF t[v.next] = Punct(",") THEN ParseMembers(t, v.next + 1, all)
     ELSE [val |-> [key \in {all[k][1] : k \in DOMAIN all} |->
                      LET last == CHOOSE k \in DOMAIN all :
                                    /\ all[k][1] = key
                                    /\ \A j \in DOMAIN all :
                                         all[j][1] = key => j <= k
                      IN all[last][2]],
           next |-> v.next + 1]

\* The elements of an array from token i on.
ParseElements(t, i, acc) ==
  LET v == ParseValue(t, i)
      all == Append(acc, v.val)
  IN IF t[v.next] = Punct(",") THEN ParseElements(t, v.next + 1, all)
     ELSE [val |-> all, next |-> v.next + 1]

JSONparse(t) == ParseValue(t, 1).val

\* The Export button: the text handed to the browser as a file.
\* exportChat changes nothing of the component; it belongs to the runs that
\* start from a given transcript (SpecExport).
exportChat ==
  /\ selectedEnvironment # 0
  /\ download' = JSONstringify(chatData)
  /\ UNCHANGED << apiKeys, endpoint, now, ids, selectedEnvironment, isProcessing,
                  localChatHistory, isSimulationRunning, simulationRunningRef,
                  effectPending, loops, manualCalls, opsLeft, flagFell,
                  leftBehind, network, adapter, formData, selectedTraits,
                  savedPersona >>

\* The messages a transcript of environment e can hold.
MessagesOf(e) ==
  (IF Environments[e].interactionMode = "mixed" \/ Environments[e].humanModerator
   THEN {UserMessage} ELSE {})
  \cup {simulateAIResponse(Environments[e].participants[k], o).msgs[1] :
          k \in DOMAIN Environments[e].participants, o \in Outcomes}

\* The transcripts of environment e: the seed, then up to MaxExport messages.
TranscriptsOf(e) ==
  {(IF Environments[e].startingPrompt THEN << SystemMessage >> ELSE << >>) \o h :
     h \in UNION {[1..n -> MessagesOf(e)] : n \in 0..MaxExport}}

InitExport ==
  /\ \E c \in Configs : apiKeys = c.keys /\ endpoint = c.endpoint
  /\ selectedEnvironment \in EnvIds
  /\ localChatHistory \in TranscriptsOf(selectedEnvironment)
  /\ isProcessing = FALSE
  /\ isSimulationRunning = FALSE
  /\ simulationRunningRef = FALSE
  /\ effectPending = FALSE
  /\ loops = [s \in LoopIds |-> FreeLoop]
  /\ manualCalls = [p \in PersonaIds |-> 0]
  /\ opsLeft = 0
  /\ flagFell = {}
  /\ leftBehind = [loops |-> {}, manual |-> [p \in PersonaIds |-> 0]]
  /\ network = {}
  /\ download = << >>
  /\ adapter = IdleAdapter(Personas[1])
  /\ NotAuthoring
  /\ ClockStart

SpecExport == InitExport /\ [][exportChat]_vars

\* ------------------------------------------------------------- properties
InFlight ==
  Cardinality({s \in LoopIds : loops[s].pc = "call"})
  + manualCalls[1] + manualCalls[2] + manualCalls[3]

TypeOK ==
  /\ selectedEnvironment \in 0..Len(Environments)
  /\ isProcessing \in BOOLEAN
  /\ isSimulationRunning \in BOOLEAN
  /\ simulationRunningRef \in BOOLEAN
  /\ Len(localChatHistory) <= MaxMsgs

AgentMsgs(h) == SelectSeq(h, LAMBDA m : m.type = "ai")

\* The name of participant number k (from 1) of the environment of closure l.
Speaker(l, k) == Personas[Participants(l)[k]].name

\* C1: an auto-loop run started by handleAutoLoop that was never stopped has,
\* when it has ended, appended exactly N * maxRounds agent messages, and the
\* j-th agent message of the transcript is by participant ((j-1) mod N) + 1.
C1_FullRun ==
  \A s \in LoopIds :
    loops[s].pc = "done" /\ loops[s].cancel = "none" =>
      LET N == Len(Participants(loops[s]))
          A == AgentMsgs(localChatHistory)
      IN /\ loops[s].turns = N * maxRounds
         /\ Len(A) = N * maxRounds
         /\ \A j \in 1..Len(A) : A[j].persona = Speaker(loops[s], ((j - 1) % N) + 1)

C3_LiveFlag ==
  \A k \in DOMAIN localChatHistory :
    LET m == localChatHistory[k]
    IN m.type = "ai" =>
         /\ m.content \in {"error+simulated", "connection error+simulated",
                           "simulated"} => ~m.isRealAI
         /\ m.content = "reply" => m.isRealAI

\* C4: a step in which a turn ends (an adapter call of simulateAIResponse
\* completes) appends exactly one agent message to the transcript and never
\* takes the caller's rejection path.
C4_OneMessagePerTurn ==
  [][InFlight' < InFlight =>
       /\ Len(localChatHistory') = Len(localChatHistory) + 1
       /\ SubSeq(localChatHistory', 1, Len(localChatHistory)) = localChatHistory
       /\ localChatHistory'[Len(localChatHistory')].type = "ai"
       /\ \A s \in LoopIds :
            loops[s].pc = "call" /\ loops'[s].pc # "call" =>
              /\ loops'[s].pc = "delay"
              /\ localChatHistory'[Len(localChatHistory')].persona
                   = Speaker(loops[s], loops[s].i + 1)]_vars

\* C4 witness: turns have ended after a failed and after a successful
\* adapter call.
C4_Witness ==
  /\ \E k \in DOMAIN localChatHistory :
       localChatHistory[k].content = "error+simulated"
  /\ \E k \in DOMAIN localChatHistory : localChatHistory[k].content = "reply"
  /\ InFlight = 0

C9_RunningHasLoop ==
  isSimulationRunning => \E s \in LoopIds : Alive(loops[s])

\* C10: when every adapter call fails, an auto-loop run that was never
\* stopped has, when it has ended, taken all N * maxRounds turns and each of
\* them appended a degraded message (isRealAI = FALSE).
C10_AllFail ==
  (apiKeys.openai /\ apiKeys.claude
     /\ endpoint.openai = "error" /\ endpoint.claude = "error") =>
    \A s \in LoopIds :
      (loops[s].pc = "done" /\ loops[s].cancel = "none"
         /\ \A k \in DOMAIN Participants(loops[s]) :
              UsesProvider(Participants(loops[s])[k])) =>
        /\ loops[s].turns = Len(Participants(loops[s])) * maxRounds
        /\ \A k \in DOMAIN localChatHistory :
             localChatHistory[k].type = "ai" => ~localChatHistory[k].isRealAI

C12_UserMessageFrame ==
  [][UserCount(localChatHistory') > UserCount(localChatHistory) =>
       /\ localChatHistory' = Append(localChatHistory, UserMessage)
       /\ InFlight' = InFlight
       /\ UNCHANGED << isSimulationRunning, isProcessing, selectedEnvironment,
                       loops, manualCalls >>]_vars

\* C12 witness: a user message was appended while an adapter call was in
\* flight, and it is the last message.
C12_Witness ==
  /\ InFlight = 1
  /\ isProcessing
  /\ Len(localChatHistory) > 0
  /\ localChatHistory[Len(localChatHistory)].type = "user"

\* C13: every step leaves the transcript unchanged, or appends exactly one
\* message at the end and keeps all earlier messages as they were, or
\* replaces it by a fresh transcript (empty, or only the seed message); a
\* replacement happens only in startSimulation or Back, the two steps that
\* change selectedEnvironment.
C13_AppendOnly ==
  [][\/ localChatHistory' = localChatHistory
     \/ /\ Len(localChatHistory') = Len(localChatHistory) + 1
        /\ SubSeq(localChatHistory', 1, Len(localChatHistory)) = localChatHistory
     \/ /\ localChatHistory' \in {<< >>, << SystemMessage >>}
        /\ selectedEnvironment' # selectedEnvironment]_vars

\* C13 witness: a transcript grown by several appends, the seed message
\* still first and an agent message last.
C13_Witness ==
  /\ Len(localChatHistory) >= 3
  /\ localChatHistory[1].type = "system"
  /\ localChatHistory[Len(localChatHistory)].type = "ai"

\* A call left behind by an ended session returns in this step.
LeftBehindReturns ==
  \/ \E s \in leftBehind.loops : s \notin leftBehind'.loops
  \/ \E p \in PersonaIds : leftBehind'.manual[p] < leftBehind.manual[p]

\* C14: when an adapter call issued by a session that has ended returns while
\* a later session is open, the transcript of that session does not change.
C14_NoLateMessage ==
  [][LeftBehindReturns /\ selectedEnvironment # 0 =>
       localChatHistory' = localChatHistory]_vars

\* C15: the step that selects an environment (startSimulation) leaves the
\* transcript as exactly the seed system message when the environment has a
\* starting prompt and empty otherwise, whatever it held before.
C15_StartSeeds ==
  [][selectedEnvironment = 0 /\ selectedEnvironment' # 0 =>
       localChatHistory' =
         IF Environments[selectedEnvironment'].startingPrompt
         THEN << SystemMessage >> ELSE << >>]_vars

\* C15 witness: a later session has just been started and seeded while a
\* call of an earlier session is still in flight.
C15_Witness ==
  /\ selectedEnvironment # 0
  /\ Environments[selectedEnvironment].startingPrompt
  /\ localChatHistory = << SystemMessage >>
  /\ \E p \in PersonaIds : leftBehind.manual[p] > 0

\* The model selector llm names a live provider whose key is configured.
LiveConfigured(llm) ==
  \/ llm = "ChatGPT (OpenAI)" /\ apiKeys.openai
  \/ llm = "Claude (Anthropic)" /\ apiKeys.claude

\* C16: fetch has been called only for turns of personas whose model
\* selector is OpenAI or Claude with that provider's key configured; every
\* agent message of any other persona is the simulated reply with
\* isRealAI = FALSE, and no fetch was made for that persona.
C16_NetworkOnlyWhenConfigured ==
  /\ \A p \in network : LiveConfigured(Personas[p].llm)
  /\ \A k \in DOMAIN localChatHistory :
       LET m == localChatHistory[k]
       IN m.type = "ai" /\ ~LiveConfigured(m.llm) =>
            /\ ~m.isRealAI
            /\ m.content = getSimulatedResponse
            /\ \A p \in network : Personas[p].name # m.persona

\* C16 witness: the transcript holds the reply of a persona whose provider
\* key is missing, and fetch has been called for another persona.
C16_Witness ==
  /\ network # {}
  /\ \E k \in DOMAIN localChatHistory :
       /\ localChatHistory[k].type = "ai"
       /\ localChatHistory[k].llm # "Gemini (Google)"
       /\ ~LiveConfigured(localChatHistory[k].llm)

\* C17: the file written by exportChat, parsed back, has the four members
\* environment, participants, messages and exportedAt; its messages are the
\* M messages of the transcript in order with the same field values, and its
\* participants are the names of the environment's participants in stored
\* order.
C17_ExportRoundTrip ==
  download # << >> =>
    LET doc == JSONparse(download)
        env == Environments[selectedEnvironment]
    IN /\ DOMAIN doc = {"environment", "participants", "messages", "exportedAt"}
       /\ Len(doc.messages) = Len(localChatHistory)
       /\ \A k \in DOMAIN localChatHistory :
            /\ DOMAIN doc.messages[k] = DOMAIN localChatHistory[k]
            /\ \A f \in DOMAIN localChatHistory[k] :
                 doc.messages[k][f] = localChatHistory[k][f]
       /\ Len(doc.participants) = Len(env.participants)
       /\ \A k \in DOMAIN env.participants :
            doc.participants[k] = Personas[env.participants[k]].name
       /\ doc.environment = env.name

\* C17 witness: a transcript of a seed and three further messages, among
\* them a live and a simulated agent message, has been exported.
C17_Witness ==
  /\ download # << >>
  /\ Len(localChatHistory) = 4
  /\ localChatHistory[1].type = "system"
  /\ \E k \in DOMAIN localChatHistory : localChatHistory[k].isRealAI
  /\ \E k \in DOMAIN localChatHistory :
       localChatHistory[k].type = "ai" /\ ~localChatHistory[k].isRealAI

\* The response budget the claim expects for a turn in environment e.
BudgetOf(e) ==
  IF Environments[e].wordLimit # 0 THEN Environments[e].wordLimit ELSE 200

\* C18: the max_tokens of every provider request in flight equals the word
\* limit of the environment of its turn, 200 when that limit is not set.
C18_BudgetIsWordLimit ==
  /\ \A s \in LoopIds :
       LET l == loops[s]
       IN l.pc = "call" /\ Participants(l)[l.i + 1] \in network =>
            maxTokens(Personas[Participants(l)[l.i + 1]]) = BudgetOf(l.env)
  /\ \A p \in PersonaIds :
       /\ manualCalls[p] > leftBehind.manual[p]
       /\ p \in network
       /\ selectedEnvironment # 0
       => maxTokens(Personas[p]) = BudgetOf(selectedEnvironment)

\* The text of response holds the piece x.
Holds(response, x) == \E k \in DOMAIN response : response[k] = x

\* C19: when the endpoint answers with a non-success status, the text
\* returned for the turn holds the error annotation with the message the
\* endpoint supplied, or with 'Unknown error' when it supplied none, and the
\* simulated reply.
C19_ErrorAnnotation ==
  adapter.stage = "done" /\ ~adapter.answer.ok =>
    LET a == adapter.answer
        supplied == a.json /\ a.hasError /\ a.message # ""
    IN /\ Holds(adapter.response, IF supplied THEN a.message ELSE "Unknown error")
       /\ Holds(adapter.response, getSimulatedResponse)

\* The adverb the prompt is expected to show for a trait assignment.
ExpectedAdverb(trait) ==
  IF "intensity" \in DOMAIN trait /\ trait.intensity = "Weak" THEN "slightly"
  ELSE IF "intensity" \in DOMAIN trait /\ trait.intensity = "Strong" THEN "very"
  ELSE "moderately"

\* The lines of a prompt that list a trait.
TraitLines(prompt) ==
  SelectSeq(prompt, LAMBDA line : line # << >> /\ line[1] = "- ")

HeaderAt(prompt, header, k) == k \in DOMAIN prompt /\ prompt[k] = << header >>

\* C21: the prompt of a persona stored by handleSubmit has the trait header
\* exactly when traits were selected and the knowledge header exactly when
\* the form held a knowledge text, and then that text is the line after the
\* header.
C21_PromptSections ==
  [][savedPersona' # savedPersona =>
       LET prompt == buildSystemPrompt(savedPersona')
       IN /\ (\E k \in DOMAIN prompt :
                HeaderAt(prompt, "Your personality traits:", k))
             <=> selectedTraits # << >>
          /\ (\E k \in DOMAIN prompt :
                HeaderAt(prompt, "Background and Knowledge:", k))
             <=> formData.knowledgeHub # ""
          /\ formData.knowledgeHub # "" =>
               \E k \in DOMAIN prompt :
                 /\ HeaderAt(prompt, "Background and Knowledge:", k)
                 /\ HeaderAt(prompt, formData.knowledgeHub, k + 1)]_vars

\* C22: whenever isSimulationRunning is true an environment is selected and
\* its interaction mode is auto-loop; so a session of another mode takes its
\* turns and user messages with isSimulationRunning false.
C22_RunningIsAutoLoop ==
  isSimulationRunning =>
    /\ selectedEnvironment # 0
    /\ Environments[selectedEnvironment].interactionMode = "auto-loop"

\* C22 witness: a manual session whose transcript holds an agent turn and a
\* user message, not running.
C22_Witness ==
  /\ selectedEnvironment # 0
  /\ Environments[selectedEnvironment].interactionMode = "manual"
  /\ ~isSimulationRunning
  /\ \E k \in DOMAIN localChatHistory : localChatHistory[k].type = "ai"
  /\ \E k \in DOMAIN localChatHistory : localChatHistory[k].type = "user"

\* The step issues the adapter call of a turn of closure s.
IssuedBy(s) ==
  /\ loops'[s].pc = "call"
  /\ \/ loops[s].pc # "call"
     \/ loops'[s].i # loops[s].i
     \/ loops'[s].currentRound # loops[s].currentRound
     \/ loops'[s].turns # loops[s].turns

\* C23: a closure of handleAutoLoop that has taken a turn issues its next
\* adapter call only from the end of a pacing delay or from the timer
\* between rounds, which is set after a pacing delay has elapsed, and by
\* then the messages of all its earlier turns have been appended; a step of
\* a manual turn changes no closure (no delay, no round counter).
C23_PacedTurns ==
  [][/\ \A s \in LoopIds :
          IssuedBy(s) /\ Alive(loops[s]) =>
            /\ loops[s].pc \in {"delay", "timer"}
            /\ loops[s].turns =
                 loops'[s].currentRound * Len(Participants(loops'[s]))
                 + loops'[s].i
     /\ manualCalls' # manualCalls => loops' = loops]_vars

\* C23 witness: the adapter call of the second turn of a closure is in
\* flight, after the first message and the pacing delay.
C23_Witness ==
  \E s \in LoopIds :
    /\ loops[s].pc = "call"
    /\ loops[s].turns >= 1
    /\ loops[s].i = 1

SelectedPairs ==
  {<< selectedTraits[k].value.category, selectedTraits[k].value.name >> :
     k \in DOMAIN selectedTraits}

\* The entries of selectedTraits for the pair pr.
EntriesOf(obj, pr) ==
  {k \in DOMAIN obj : << obj[k].value.category, obj[k].value.name >> = pr}

\* C25: no step leaves selectedTraits with two entries for one (category,
\* trait name) pair; a step that adds a pair adds one entry with intensity
\* Neutral and changes nothing else; a step that removes a pair while the
\* form stays as it is removes the entry of that pair and nothing else.
C25_OneEntryPerPair ==
  [][/\ \A w \in TraitWords :
          Cardinality(EntriesOf(selectedTraits', << w.category, w.name >>)) <= 1
     /\ Len(selectedTraits') = Cardinality(SelectedPairs')
     /\ \A w \in TraitWords :
          LET pr == << w.category, w.name >>
          IN /\ EntriesOf(selectedTraits, pr) = {}
                /\ EntriesOf(selectedTraits', pr) # {}
                => selectedTraits' =
                     Append(selectedTraits,
                            [key |-> traitKey(w.category, w.name),
                             value |-> [name |-> w.name,
                                        category |-> w.category,
                                        intensity |-> "Neutral"]])
             /\ EntriesOf(selectedTraits, pr) # {}
                /\ EntriesOf(selectedTraits', pr) = {}
                /\ formData' = formData
                => selectedTraits' =
                     SelectSeq(selectedTraits,
                               LAMBDA e : << e.value.category, e.value.name >> # pr)]_vars

\* C25 witness: two traits of one category are selected and both had their
\* intensity changed, to Strong and to Weak.
C25_Witness ==
  /\ Len(selectedTraits) = 2
  /\ selectedTraits[1].value.category = selectedTraits[2].value.category
  /\ selectedTraits[1].value.intensity = "Strong"
  /\ selectedTraits[2].value.intensity = "Weak"

\* C26: in the step of an accepted handleAutoLoop (isSimulationRunning
\* becomes true) the first poll of simulationRunningRef sees true, that is,
\* the new closure issues the adapter call of the first participant.
C26_FirstPollTrue ==
  [][~isSimulationRunning /\ isSimulationRunning' =>
       \E s \in LoopIds :
         /\ IssuedBy(s)
         /\ loops'[s].currentRound = 0
         /\ loops'[s].i = 0
         /\ loops'[s].turns = 0]_vars

C29_IdleTranscriptEmpty ==
  selectedEnvironment = 0 => localChatHistory = << >>

\* C30: the ids of the messages of the transcript are pairwise distinct.
C30_DistinctIds ==
  \A i, j \in DOMAIN ids : i # j => ids[i] # ids[j]
====
